---- MODULE Spec2Model ----
(***************************************************************************)
(* The schema nodes of ipi/utils/inputvalue.py (Input, InputValue,         *)
(* InputArray, input_default) and the motion dispatcher of                 *)
(* ipi/inputs/motion/motion.py (InputMotionBase, InputMotion).             *)
(*                                                                         *)
(* A schema node is a record; the children of a node are owned by it and   *)
(* are nested records.  What Python shares by reference (the option list   *)
(* of the 'mode' attribute, default objects) lives in the heaps `lists'    *)
(* and `heap' and is named by an index.  An optional value is a sequence   *)
(* of length 0 (None, attribute not set) or 1.                             *)
(***************************************************************************)
EXTENDS Integers, Sequences, FiniteSets, TLC

VARIABLES
    lists,      \* heap of Python list objects: lists[r] is the content of list r
    registry,   \* registry[c]: the list that holds the options of 'mode' in the
                \* attribs dictionary of class c (0: c is not defined yet)
    im,         \* the InputMotion node under test (<<>> before construction)
    ops,        \* number of store/parse calls made on im since construction
    src,        \* the domain object of the last store on im (<<>> otherwise)
    im2,        \* a second, fresh InputMotion that parsed what im wrote
    call,       \* the last call: operation, argument, result, exception
    lf,         \* a scalar / array leaf under test
    ldecl,      \* the declaration lf was constructed from (<<>> before)
    lcall,      \* the last call on lf
    cn,         \* a composite node of the kind InputTest under test
    ccall,      \* the last call on cn
    heap,       \* heap of default objects: heap[i] is the content of object i
    nodeA,      \* two nodes constructed from the same default
    nodeB,
    dcall       \* the last call in the default-descriptor scenario

vars == <<lists, registry, im, ops, src, im2, call, lf, ldecl, lcall, cn, ccall,
          heap, nodeA, nodeB, dcall>>

-----------------------------------------------------------------------------
(* Bounds *)

MaxOps == 2        \* store/parse calls on one node between two constructions
MaxHeap == 3       \* default objects made in one run

-----------------------------------------------------------------------------
(* Optional values, exceptions *)

None == <<>>
Some(v) == <<v>>

NoErr == [type |-> "none", name |-> ""]
Err(t, n) == [type |-> t, name |-> n]

\* the outcome of a call that mutates a node: the node as the call left it,
\* and the exception it raised (a raise keeps the mutations made before it)
Ok(n) == [n |-> n, err |-> NoErr]
Fail(n, e) == [n |-> n, err |-> e]

\* the element of a one-element set: The({e(v) : v \in {x}}) is e of the
\* value of x, with x evaluated once
The(S) == CHOOSE x \in S : TRUE

\* the outcome of a call that returns a value
Ret(v) == [v |-> Some(v), err |-> NoErr]
Raise(e) == [v |-> None, err |-> e]

-----------------------------------------------------------------------------
(* Text conversion (io_xml) and units: external collaborators *)

IntText == <<"0", "1", "2", "3", "4", "5", "6", "7", "8", "9">>

TrueTexts == {"True", "true", "TRUE", " True "}
FalseTexts == {"False", "false", "FALSE", " False "}

\* str.strip() on the texts of the model
Strip(t) ==
    CASE t = " replay " -> "replay"
      [] t = " in.xyz " -> "in.xyz"
      [] t = " a " -> "a"
      [] OTHER -> t

\* write_type(type, data): the text of a scalar, a sequence of tokens
write_type(type, v) ==
    CASE type = "bool" -> <<IF v THEN "True" ELSE "False">>
      [] type = "int" -> <<IntText[v + 1]>>
      [] type = "str" -> <<v>>
      [] type = "tuple" -> [i \in 1..Len(v) |-> IntText[v[i] + 1]]

write_tuple(v) == write_type("tuple", v)

IsIntText(t) == \E n \in 0..(Len(IntText) - 1) : IntText[n + 1] = Strip(t)
IntOf(t) == CHOOSE n \in 0..(Len(IntText) - 1) : IntText[n + 1] = Strip(t)

\* read_type(type, text): the value of a text, or ValueError
read_type(type, text) ==
    CASE type = "bool" ->
            IF Len(text) = 1 /\ text[1] \in TrueTexts THEN Ret(TRUE)
            ELSE IF Len(text) = 1 /\ text[1] \in FalseTexts THEN Ret(FALSE)
            ELSE Raise(Err("ValueError", "read_bool"))
      [] type = "int" ->
            IF Len(text) = 1 /\ IsIntText(text[1]) THEN Ret(IntOf(text[1]))
            ELSE Raise(Err("ValueError", "read_int"))
      [] type = "str" ->
            IF Len(text) = 0 THEN Ret("") ELSE Ret(Strip(text[1]))
      [] type = "tuple" ->
            IF \A i \in 1..Len(text) : IsIntText(text[i])
            THEN Ret([i \in 1..Len(text) |-> IntOf(text[i])])
            ELSE Raise(Err("ValueError", "read_tuple"))

\* an array value: its shape and its elements in row-major order
Arr(shape, data) == [shape |-> shape, data |-> data]
Vec(data) == Arr(<<Len(data)>>, data)

\* read_array(type, text): a one-dimensional array of the elements read
read_array(type, text) ==
    IF \A i \in 1..Len(text) : IsIntText(text[i])
    THEN Ret(Vec([i \in 1..Len(text) |-> IntOf(text[i])]))
    ELSE Raise(Err("ValueError", "read_array"))

\* the scale of a unit of a dimension; the unit "" is the internal unit
UnitScale(units) ==
    CASE units = "" -> 1
      [] units = "double" -> 2
      [] units = "triple" -> 3

unit_to_internal(dimension, units, v) == v * UnitScale(units)

RECURSIVE Product(_)
Product(s) == IF s = <<>> THEN 1 ELSE Head(s) * Product(Tail(s))

-----------------------------------------------------------------------------
(* Input: the base class *)

\* Input.store: only marks the node explicit
Input_store(node) == [node EXCEPT !.explicit = TRUE]

\* Input.check: a mandatory node that was never set
Input_check(node) ==
    IF ~(node.explicit \/ node.optional)
    THEN Err("MissingValue", node.cls) ELSE NoErr

-----------------------------------------------------------------------------
(* InputValue: the scalar leaf *)

\* InputValue.store: value = type(value), for a value of the leaf's type
InputValue_store(leaf, v) == [Input_store(leaf) EXCEPT !.value = Some(v)]

\* InputValue.check
InputValue_check(leaf) ==
    IF Input_check(leaf) # NoErr THEN Input_check(leaf)
    ELSE IF leaf.valid # None /\ leaf.value = None
    THEN Err("AttributeError", "value")
    ELSE IF ~(leaf.valid = None
              \/ \E i \in 1..Len(lists[leaf.valid[1]]) :
                    lists[leaf.valid[1]][i] = leaf.value[1])
    THEN Err("InvalidOption", "")
    ELSE NoErr

\* a fetch that does not run check
InputValue_fetch_unchecked(leaf) ==
    IF leaf.value = None THEN Raise(Err("AttributeError", "value"))
    ELSE IF leaf.dimension # "undefined"
    THEN Ret(unit_to_internal(leaf.dimension, leaf.units, leaf.value[1]))
    ELSE Ret(leaf.value[1])

\* InputValue.fetch
InputValue_fetch(leaf) ==
    IF InputValue_check(leaf) # NoErr THEN Raise(InputValue_check(leaf))
    ELSE IF leaf.value = None THEN Raise(Err("AttributeError", "value"))
    ELSE IF leaf.dimension # "undefined"
    THEN Ret(unit_to_internal(leaf.dimension, leaf.units, leaf.value[1]))
    ELSE Ret(leaf.value[1])

\* a constructor that does not look for the default in the options
InputValue_init_unchecked(dtype, default, options, dimension, units) ==
    LET fresh == [cls |-> "InputValue", type |-> dtype,
                  dimension |-> dimension, units |-> units,
                  optional |-> default # None, explicit |-> FALSE,
                  value |-> None, valid |-> None]
        stored == IF default # None
                  THEN [InputValue_store(fresh, default[1]) EXCEPT !.explicit = FALSE]
                  ELSE fresh
    IN  Ok([stored EXCEPT !.valid = options])

\* Input.__init__ followed by the rest of InputValue.__init__
InputValue_init(dtype, default, options, dimension, units) ==
    LET fresh == [cls |-> "InputValue", type |-> dtype,
                  dimension |-> dimension, units |-> units,
                  optional |-> default # None, explicit |-> FALSE,
                  value |-> None, valid |-> None]
        stored == IF default # None
                  THEN [InputValue_store(fresh, default[1]) EXCEPT !.explicit = FALSE]
                  ELSE fresh
        node == [stored EXCEPT !.valid = options]
    IN  IF options # None /\ default # None
           /\ ~\E i \in 1..Len(lists[options[1]]) : lists[options[1]][i] = default[1]
        THEN Fail(node, Err("InvalidOption", "default"))
        ELSE Ok(node)

-----------------------------------------------------------------------------
(* The text tree (xml_node): name, attribs, fields; a '_text' child carries *)
(* the text between the tags                                               *)

Tree(name, attribs, fields) ==
    [name |-> name, attribs |-> attribs, fields |-> fields, text |-> <<>>]
Text(tokens) ==
    [name |-> "_text", attribs |-> <<>>, fields |-> <<>>, text |-> tokens]
LeafTree(name, attribs, tokens) == Tree(name, attribs, << <<"_text", Text(tokens)>> >>)

HasAttr(xml, a) == \E i \in 1..Len(xml.attribs) : xml.attribs[i][1] = a
AttrOf(xml, a) ==
    xml.attribs[CHOOSE i \in 1..Len(xml.attribs) : xml.attribs[i][1] = a][2]

\* the names an InputValue / InputArray instance holds in its __dict__
InstanceDict == {"extra", "units", "type", "value", "shape"}

\* the exception of the loop over the attributes of a leaf's tag, which
\* skips the names in `skip'
LeafAttrErr(xml, skip) ==
    LET bad == {i \in 1..Len(xml.attribs) : xml.attribs[i][1] \notin skip}
    IN  IF bad = {} THEN NoErr
        ELSE LET i == CHOOSE j \in bad : \A k \in bad : j <= k
             IN  IF xml.attribs[i][1] \in InstanceDict
                 THEN Err("AttributeError", xml.attribs[i][1])
                 ELSE Err("UnrecognizedAttribute", xml.attribs[i][1])

\* InputValue.write: a list of zero or one (name, tree) entries
InputValue_write(leaf, name) ==
    IF leaf.value = None THEN Raise(Err("AttributeError", "value"))
    ELSE IF leaf.type \in {"str", "tuple"} /\ Len(leaf.value[1]) = 0
    THEN Ret(<<>>)
    ELSE Ret(<< <<name, LeafTree(name, <<>>, write_type(leaf.type, leaf.value[1]))>> >>)

\* InputValue.parse(text=...)
InputValue_parse_text(leaf, text) ==
    LET n0 == [leaf EXCEPT !.explicit = TRUE]
        r == read_type(leaf.type, text)
    IN  IF r.err # NoErr THEN Fail(n0, r.err)
        ELSE Ok([n0 EXCEPT !.value = r.v])

\* InputValue.parse(xml=...)
InputValue_parse(leaf, xml) ==
    LET n0 == [leaf EXCEPT !.explicit = TRUE]
        n1 == IF HasAttr(xml, "units")
              THEN [n0 EXCEPT !.units = AttrOf(xml, "units")[1]]
              ELSE n0
    IN  IF LeafAttrErr(xml, {"units"}) # NoErr THEN Fail(n1, LeafAttrErr(xml, {"units"}))
        ELSE IF xml.fields = <<>> THEN Fail(n1, Err("IndexError", "fields"))
        ELSE LET r == read_type(leaf.type, xml.fields[1][2].text)
             IN  IF r.err # NoErr THEN Fail(n1, r.err)
                 ELSE Ok([n1 EXCEPT !.value = r.v])

-----------------------------------------------------------------------------
(* InputArray: the array leaf *)

\* a store that keeps the flat length as the shape
InputArray_store_flat(node, v) ==
    [Input_store(node) EXCEPT !.shape = InputValue_store(@, <<Len(v.data)>>),
                              !.value = Some(v.data)]

\* InputArray.store
InputArray_store(node, v) ==
    LET n0 == Input_store(node)
        n1 == [n0 EXCEPT !.shape = InputValue_store(@, v.shape),
                         !.value = Some(v.data)]
    IN  IF InputValue_fetch(n1.shape).v = Some(<<0>>)
        THEN [n1 EXCEPT !.shape = InputValue_store(@, <<Len(v.data)>>)]
        ELSE n1

\* a fetch that returns the flat sequence without reshaping it
InputArray_fetch_flat(node) ==
    IF Input_check(node) # NoErr THEN Raise(Input_check(node))
    ELSE IF node.value = None THEN Raise(Err("AttributeError", "value"))
    ELSE LET scale == IF node.dimension # "undefined"
                      THEN unit_to_internal(node.dimension, node.units, 1) ELSE 1
         IN  Ret(Vec([i \in 1..Len(node.value[1]) |-> node.value[1][i] * scale]))

\* InputArray.fetch
InputArray_fetch(node) ==
    IF Input_check(node) # NoErr THEN Raise(Input_check(node))
    ELSE IF node.value = None THEN Raise(Err("AttributeError", "value"))
    ELSE LET shape == InputValue_fetch(node.shape).v[1]
             scale == IF node.dimension # "undefined"
                      THEN unit_to_internal(node.dimension, node.units, 1) ELSE 1
         IN  IF shape = <<0>> THEN Ret(Arr(<<0>>, <<>>))
             ELSE IF Product(shape) # Len(node.value[1])
             THEN Raise(Err("ValueError", "reshape"))
             ELSE Ret(Arr(shape, [i \in 1..Len(node.value[1]) |-> node.value[1][i] * scale]))

\* a constructor that leaves the node explicit after storing the default
InputArray_init_explicit(dtype, default, dimension, units) ==
    LET fresh == [cls |-> "InputArray", type |-> dtype,
                  dimension |-> dimension, units |-> units,
                  optional |-> default # None, explicit |-> FALSE,
                  value |-> None,
                  shape |-> InputValue_init("tuple", Some(<<0>>), None, "undefined", "").n]
    IN  IF default # None THEN InputArray_store(fresh, default[1]) ELSE fresh

\* Input.__init__ followed by the rest of InputArray.__init__
InputArray_init(dtype, default, dimension, units) ==
    LET fresh == [cls |-> "InputArray", type |-> dtype,
                  dimension |-> dimension, units |-> units,
                  optional |-> default # None, explicit |-> FALSE,
                  value |-> None,
                  shape |-> InputValue_init("tuple", Some(<<0>>), None, "undefined", "").n]
    IN  IF default # None
        THEN [InputArray_store(fresh, default[1]) EXCEPT !.explicit = FALSE]
        ELSE fresh

\* InputArray.write: a list of zero or one (name, tree) entries
InputArray_write(node, name) ==
    IF node.value = None THEN Raise(Err("AttributeError", "value"))
    ELSE IF Len(node.value[1]) = 0 THEN Ret(<<>>)
    ELSE Ret(<< <<name, LeafTree(name,
                    << <<"shape", write_tuple(InputValue_fetch(node.shape).v[1])>> >>,
                    [i \in 1..Len(node.value[1]) |-> write_type(node.type, node.value[1][i])[1]])>> >>)

\* InputArray.parse(text=...)
InputArray_parse_text(node, text) ==
    LET n0 == [node EXCEPT !.explicit = TRUE]
        r == read_array(node.type, text)
    IN  IF r.err # NoErr THEN Fail(n0, r.err)
        ELSE Ok([n0 EXCEPT !.value = Some(r.v[1].data)])

\* InputArray.parse(xml=...)
InputArray_parse(node, xml) ==
    LET n0 == [node EXCEPT !.explicit = TRUE]
    IN  IF xml.fields = <<>> THEN Fail(n0, Err("IndexError", "fields"))
        ELSE IF xml.fields[1][1] # "_text" THEN Fail(n0, Err("ValueError", "tags"))
        ELSE LET r == read_array(node.type, xml.fields[1][2].text)
             IN  IF r.err # NoErr THEN Fail(n0, r.err)
                 ELSE LET n1 == [n0 EXCEPT !.value = Some(r.v[1].data)]
                          n2 == IF HasAttr(xml, "units")
                                THEN [n1 EXCEPT !.units = AttrOf(xml, "units")[1]]
                                ELSE n1
                          sh == IF HasAttr(xml, "shape")
                                THEN read_type("tuple", AttrOf(xml, "shape"))
                                ELSE Ret(r.v[1].shape)
                      IN  IF sh.err # NoErr THEN Fail(n2, sh.err)
                          ELSE LET n3 == [n2 EXCEPT !.shape = InputValue_store(@, sh.v[1])]
                               IN  IF LeafAttrErr(xml, {"shape", "units"}) # NoErr
                                   THEN Fail(n3, LeafAttrErr(xml, {"shape", "units"}))
                                   ELSE Ok(n3)

-----------------------------------------------------------------------------
(* Domain objects (ipi.engine.motion): the kind is the exact class *)

Obj(kind, fixcom, fixatoms, intraj, cfg, mlist) ==
    [kind |-> kind, fixcom |-> fixcom, fixatoms |-> fixatoms,
     intraj |-> intraj, cfg |-> cfg, mlist |-> mlist]

\* the constructors fetch calls
Motion == Obj("Motion", FALSE, Vec(<<>>), "", 0, <<>>)
Replay(fixcom, fixatoms, intraj) == Obj("Replay", fixcom, fixatoms, intraj, 0, <<>>)
Mover(kind, fixcom, fixatoms, cfg) == Obj(kind, fixcom, fixatoms, "", cfg, <<>>)
MultiMotion(motionlist) == Obj("MultiMotion", FALSE, Vec(<<>>), "", 0, motionlist)

-----------------------------------------------------------------------------
(* InputMotionBase and InputMotion *)

Range(s) == {s[i] : i \in 1..Len(s)}

\* the attribs, fields and dynamic dictionaries of a class, in iteration order
Attribs(cls) ==
    CASE cls \in {"InputMotionBase", "InputMotion"} -> <<"mode">>
      [] cls = "InputTest" -> <<"label", "stride">>
      [] cls = "InputNote" -> <<>>
Fields(cls) ==
    CASE cls \in {"InputMotionBase", "InputMotion"} ->
            <<"fixcom", "fixatoms", "optimizer", "neb_optimizer", "dynamics",
              "file", "vibrations", "alchemy">>
      [] cls = "InputTest" -> <<"count", "flag">>
      [] cls = "InputNote" -> <<"title", "memo", "name", "atoms", "sites">>
Dynamic(cls) ==
    CASE cls = "InputMotion" -> {"motion"}
      [] OTHER -> {}

\* the sub-schemas InputGeop, InputNEB, InputDynamics, InputDynMatrix and
\* InputAlchemy (default {}) and InputInitFile (default InitFile(mode='xyz')),
\* each reduced to one leaf
KindSlot_init == InputValue_init("int", Some(0), None, "undefined", "").n
KindSlot_store(slot, sc) == InputValue_store(slot, sc.cfg)
InputInitFile_init == InputValue_init("str", Some(""), None, "undefined", "").n

\* a store that matches the kind with isinstance: every kind of
\* ipi.engine.motion derives from Motion, the first branch
InputMotionBase_store_isinstance(node, sc) ==
    IF sc.kind \in {"Motion", "Replay", "GeopMotion", "NEBMover", "Dynamics",
                    "DynMatrixMover", "AlchemyMC", "MultiMotion"}
    THEN Ok([Input_store(node) EXCEPT !.mode = InputValue_store(@, "dummy")])
    ELSE Fail(Input_store(node), Err("UnsupportedKind", sc.kind))

\* InputMotionBase.store
InputMotionBase_store(node, sc) ==
    LET n0 == Input_store(node)
        tsc == CASE sc.kind = "Motion" -> -1
                 [] sc.kind = "Replay" -> 0
                 [] OTHER -> 1
        n1 == CASE sc.kind = "Motion" ->
                    [n0 EXCEPT !.mode = InputValue_store(@, "dummy")]
                [] sc.kind = "Replay" ->
                    [n0 EXCEPT !.mode = InputValue_store(@, "replay")]
                [] sc.kind = "GeopMotion" ->
                    [n0 EXCEPT !.mode = InputValue_store(@, "minimize"),
                               !.optimizer = KindSlot_store(@, sc)]
                [] sc.kind = "NEBMover" ->
                    [n0 EXCEPT !.mode = InputValue_store(@, "neb"),
                               !.neb_optimizer = KindSlot_store(@, sc)]
                [] sc.kind = "Dynamics" ->
                    [n0 EXCEPT !.mode = InputValue_store(@, "dynamics"),
                               !.dynamics = KindSlot_store(@, sc)]
                [] sc.kind = "DynMatrixMover" ->
                    [n0 EXCEPT !.mode = InputValue_store(@, "vibrations"),
                               !.vibrations = KindSlot_store(@, sc)]
                [] sc.kind = "AlchemyMC" ->
                    [n0 EXCEPT !.mode = InputValue_store(@, "alchemy"),
                               !.alchemy = KindSlot_store(@, sc)]
                [] OTHER -> n0
    IN  IF sc.kind \notin {"Motion", "Replay", "GeopMotion", "NEBMover",
                           "Dynamics", "DynMatrixMover", "AlchemyMC"}
        THEN Fail(n0, Err("UnsupportedKind", sc.kind))
        ELSE IF tsc = 0
        THEN Ok([n1 EXCEPT !.file = InputValue_store(@, sc.intraj)])
        ELSE IF tsc > 0
        THEN Ok([n1 EXCEPT !.fixcom = InputValue_store(@, sc.fixcom),
                           !.fixatoms = InputArray_store(@, sc.fixatoms)])
        ELSE Ok(n1)

\* Input.__init__ for the two classes, before the default is stored
NewMotionNode(cls, default) ==
    [cls |-> cls, optional |-> default # None, explicit |-> FALSE,
     extra |-> <<>>,
     mode |-> InputValue_init("str", None, Some(registry[cls]), "undefined", "").n,
     fixcom |-> InputValue_init("bool", Some(TRUE), None, "undefined", "").n,
     fixatoms |-> InputArray_init("int", Some(Vec(<<>>)), "undefined", ""),
     optimizer |-> KindSlot_init,
     neb_optimizer |-> KindSlot_init,
     dynamics |-> KindSlot_init,
     file |-> InputInitFile_init,
     vibrations |-> KindSlot_init,
     alchemy |-> KindSlot_init]

\* InputMotionBase(default=...): Input.__init__ stores the default through
\* the node's own store and then clears the node's explicit flag
InputMotionBase_init(default) ==
    LET fresh == NewMotionNode("InputMotionBase", default)
        r == InputMotionBase_store(fresh, default[1])
    IN  IF default = None THEN Ok(fresh)
        ELSE IF r.err # NoErr THEN r
        ELSE Ok([r.n EXCEPT !.explicit = FALSE])

RECURSIVE StoreList_prepend(_, _, _)
\* a loop that inserts each new entry at the front of extra
StoreList_prepend(node, mlist, i) ==
    IF i > Len(mlist) THEN Ok(node)
    ELSE The({IF r.err # NoErr THEN Fail(node, r.err)
              ELSE StoreList_prepend([node EXCEPT !.extra = << <<"motion", r.n>> >> \o @],
                                     mlist, i + 1) :
              r \in {InputMotionBase_store(InputMotionBase_init(None).n, mlist[i])}})

RECURSIVE StoreList(_, _, _)
\* the loop of InputMotion.store over motion.mlist
StoreList(node, mlist, i) ==
    IF i > Len(mlist) THEN Ok(node)
    ELSE The({IF r.err # NoErr THEN Fail(node, r.err)
              ELSE StoreList([node EXCEPT !.extra = Append(@, <<"motion", r.n>>)],
                             mlist, i + 1) :
              r \in {InputMotionBase_store(InputMotionBase_init(None).n, mlist[i])}})

\* InputMotion.store
InputMotion_store(node, motion) ==
    IF motion.kind = "MultiMotion"
    THEN StoreList([node EXCEPT !.mode = InputValue_store(@, "multi")], motion.mlist, 1)
    ELSE InputMotionBase_store(node, motion)

\* InputMotion(default=...)
InputMotion_init(default) ==
    LET fresh == NewMotionNode("InputMotion", default)
        r == InputMotion_store(fresh, default[1])
    IN  IF default = None THEN Ok(fresh)
        ELSE IF r.err # NoErr THEN r
        ELSE Ok([r.n EXCEPT !.explicit = FALSE])

\* a fetch that raises for a mode without a constructor
InputMotionBase_fetch_strict(node) ==
    LET m == InputValue_fetch(node.mode)
        fa == InputArray_fetch(node.fixatoms)
        fc == InputValue_fetch(node.fixcom)
        slot == CASE m.v[1] = "minimize" -> node.optimizer
                  [] m.v[1] = "neb" -> node.neb_optimizer
                  [] m.v[1] = "dynamics" -> node.dynamics
                  [] m.v[1] = "vibrations" -> node.vibrations
                  [] OTHER -> node.alchemy
        kind == CASE m.v[1] = "minimize" -> "GeopMotion"
                  [] m.v[1] = "neb" -> "NEBMover"
                  [] m.v[1] = "dynamics" -> "Dynamics"
                  [] m.v[1] = "vibrations" -> "DynMatrixMover"
                  [] OTHER -> "AlchemyMC"
    IN  IF Input_check(node) # NoErr THEN Raise(Input_check(node))
        ELSE IF m.err # NoErr THEN Raise(m.err)
        ELSE IF m.v[1] \notin {"replay", "minimize", "neb", "dynamics", "vibrations", "alchemy"}
        THEN Raise(Err("ValueError", "mode"))
        ELSE IF fa.err # NoErr THEN Raise(fa.err)
        ELSE IF m.v[1] = "replay"
        THEN Ret(Replay(fc.v[1], fa.v[1], InputValue_fetch(node.file).v[1]))
        ELSE Ret(Mover(kind, fc.v[1], fa.v[1], InputValue_fetch(slot).v[1]))

\* a fetch that builds every object with the constructor's own fixcom and
\* fixatoms, not with the ones the node holds
InputMotionBase_fetch_nofix(node) ==
    LET m == InputValue_fetch(node.mode)
        mover(kind, slot) == Ret(Mover(kind, TRUE, Vec(<<>>), InputValue_fetch(slot).v[1]))
    IN  IF Input_check(node) # NoErr THEN Raise(Input_check(node))
        ELSE IF m.err # NoErr THEN Raise(m.err)
        ELSE CASE m.v[1] = "replay" ->
                    Ret(Replay(TRUE, Vec(<<>>), InputValue_fetch(node.file).v[1]))
               [] m.v[1] = "minimize" -> mover("GeopMotion", node.optimizer)
               [] m.v[1] = "neb" -> mover("NEBMover", node.neb_optimizer)
               [] m.v[1] = "dynamics" -> mover("Dynamics", node.dynamics)
               [] m.v[1] = "vibrations" -> mover("DynMatrixMover", node.vibrations)
               [] m.v[1] = "alchemy" -> mover("AlchemyMC", node.alchemy)
               [] OTHER -> Ret(Motion)

\* InputMotionBase.fetch
InputMotionBase_fetch(node) ==
    LET m == InputValue_fetch(node.mode)
        fa == InputArray_fetch(node.fixatoms)
        fc == InputValue_fetch(node.fixcom)
        mover(kind, slot) ==
            IF fa.err # NoErr THEN Raise(fa.err)
            ELSE Ret(Mover(kind, fc.v[1], fa.v[1], InputValue_fetch(slot).v[1]))
    IN  IF Input_check(node) # NoErr THEN Raise(Input_check(node))
        ELSE IF m.err # NoErr THEN Raise(m.err)
        ELSE CASE m.v[1] = "replay" ->
                    IF fa.err # NoErr THEN Raise(fa.err)
                    ELSE Ret(Replay(fc.v[1], fa.v[1], InputValue_fetch(node.file).v[1]))
               [] m.v[1] = "minimize" -> mover("GeopMotion", node.optimizer)
               [] m.v[1] = "neb" -> mover("NEBMover", node.neb_optimizer)
               [] m.v[1] = "dynamics" -> mover("Dynamics", node.dynamics)
               [] m.v[1] = "vibrations" -> mover("DynMatrixMover", node.vibrations)
               [] m.v[1] = "alchemy" -> mover("AlchemyMC", node.alchemy)
               [] OTHER -> Ret(Motion)

RECURSIVE FetchList(_, _, _)
\* the loop of InputMotion.fetch over self.extra, from entry i on; mlist holds
\* the objects fetched so far
FetchList(extra, i, mlist) ==
    IF i > Len(extra) THEN Ret(mlist)
    ELSE The({IF r.err # NoErr THEN r
              ELSE FetchList(extra, i + 1, Append(mlist, r.v[1])) :
              r \in {InputMotionBase_fetch(extra[i][2])}})

\* InputMotion.fetch
InputMotion_fetch(node) ==
    LET m == InputValue_fetch(node.mode)
    IN  IF m.err # NoErr THEN Raise(m.err)
        ELSE IF m.v[1] = "multi"
        THEN The({IF l.err # NoErr THEN l ELSE Ret(MultiMotion(l.v[1])) :
                  l \in {FetchList(node.extra, 1, <<>>)}})
        ELSE InputMotionBase_fetch(node)

-----------------------------------------------------------------------------
(* Input.write, Input.extend and Input.parse, for every composite class *)

RECURSIVE Input_write(_, _)
RECURSIVE WriteAttribs(_, _, _)
RECURSIVE WriteFields(_, _, _)
RECURSIVE WriteExtra(_, _, _)

\* the write of a child, by the child's class
Child_write(child, name) ==
    CASE child.cls = "InputValue" -> InputValue_write(child, name)
      [] child.cls = "InputArray" -> InputArray_write(child, name)
      [] OTHER -> Input_write(child, name)

\* the loop of Input.write over self.attribs, from attribute i on; rstr holds
\* what is written so far
WriteAttribs(node, i, rstr) ==
    IF i > Len(Attribs(node.cls)) THEN Ret(rstr)
    ELSE The({IF r.err # NoErr THEN r
              ELSE WriteAttribs(node, i + 1,
                      Append(rstr, <<Attribs(node.cls)[i],
                                     write_type(node[Attribs(node.cls)[i]].type, r.v[1])>>)) :
              r \in {InputValue_fetch(node[Attribs(node.cls)[i]])}})

\* the loop of Input.write over self.fields
WriteFields(node, i, rstr) ==
    IF i > Len(Fields(node.cls)) THEN Ret(rstr)
    ELSE The({IF r.err # NoErr THEN r
              ELSE WriteFields(node, i + 1, rstr \o r.v[1]) :
              r \in {Child_write(node[Fields(node.cls)[i]], Fields(node.cls)[i])}})

\* the loop of Input.write over self.extra
WriteExtra(node, i, rstr) ==
    IF i > Len(node.extra) THEN Ret(rstr)
    ELSE The({IF r.err # NoErr THEN r
              ELSE WriteExtra(node, i + 1, rstr \o r.v[1]) :
              r \in {Child_write(node.extra[i][2], node.extra[i][1])}})

\* Input.write: a list of one (name, tree) entry
Input_write(node, name) ==
    The({IF a.err # NoErr THEN a
         ELSE The({IF f.err # NoErr THEN f
                   ELSE The({IF e.err # NoErr THEN e
                             ELSE Ret(<< <<name, Tree(name, a.v[1], e.v[1])>> >>) :
                             e \in {WriteExtra(node, 1, f.v[1])}}) :
                   f \in {WriteFields(node, 1, <<>>)}}) :
         a \in {WriteAttribs(node, 1, <<>>)}})

RECURSIVE Input_parse(_, _)
RECURSIVE ParseAttribs(_, _, _)
RECURSIVE ParseFields(_, _, _)

\* the node a dynamic template makes: self.dynamic[name][0](**self.dynamic[name][1])
DynamicTemplate(cls, name) == InputMotionBase_init(Some(Motion)).n

\* the parse(xml=...) of a child, by the child's class
Child_parse(child, xml) ==
    CASE child.cls = "InputValue" -> InputValue_parse(child, xml)
      [] child.cls = "InputArray" -> InputArray_parse(child, xml)
      [] OTHER -> Input_parse(child, xml)

\* Input.extend
Input_extend(node, name, xml) ==
    The({IF r.err # NoErr THEN Fail(node, r.err)
         ELSE Ok([node EXCEPT !.extra = Append(@, <<name, r.n>>)]) :
         r \in {Input_parse(DynamicTemplate(node.cls, name), xml)}})

\* the loop of Input.parse over xml.attribs, from attribute i on
ParseAttribs(node, xml, i) ==
    IF i > Len(xml.attribs) THEN Ok(node)
    ELSE IF xml.attribs[i][1] \in Range(Attribs(node.cls))
    THEN The({The({IF r.err # NoErr THEN Fail(n, r.err) ELSE ParseAttribs(n, xml, i + 1) :
                   n \in {[node EXCEPT ![xml.attribs[i][1]] = r.n]}}) :
              r \in {InputValue_parse_text(node[xml.attribs[i][1]], xml.attribs[i][2])}})
    ELSE IF xml.attribs[i][1] = "_text" THEN ParseAttribs(node, xml, i + 1)
    ELSE Fail(node, Err("UnrecognizedAttribute", xml.attribs[i][1]))

\* the loop of Input.parse over xml.fields, from child i on
ParseFields(node, xml, i) ==
    IF i > Len(xml.fields) THEN Ok(node)
    ELSE IF xml.fields[i][1] \in Range(Fields(node.cls))
    THEN The({The({IF r.err # NoErr THEN Fail(n, r.err) ELSE ParseFields(n, xml, i + 1) :
                   n \in {[node EXCEPT ![xml.fields[i][1]] = r.n]}}) :
              r \in {Child_parse(node[xml.fields[i][1]], xml.fields[i][2])}})
    ELSE IF xml.fields[i][1] = "_text" THEN ParseFields(node, xml, i + 1)
    ELSE IF xml.fields[i][1] \in Dynamic(node.cls)
    THEN The({IF r.err # NoErr THEN r ELSE ParseFields(r.n, xml, i + 1) :
              r \in {Input_extend(node, xml.fields[i][1], xml.fields[i][2])}})
    ELSE Fail(node, Err("UnrecognizedTag", xml.fields[i][1]))

\* closing loops that look at the fields before the attributes
Mandatory_fields_first(node) ==
    LET missing(names) == {i \in 1..Len(names) :
                              ~(node[names[i]].explicit \/ node[names[i]].optional)}
        first(names) == names[CHOOSE i \in missing(names) : \A j \in missing(names) : i <= j]
    IN  IF missing(Fields(node.cls)) # {}
        THEN Fail(node, Err("MissingField", first(Fields(node.cls))))
        ELSE IF missing(Attribs(node.cls)) # {}
        THEN Fail(node, Err("MissingField", first(Attribs(node.cls))))
        ELSE Ok(node)

\* the two closing loops of Input.parse: attributes first, then fields
Mandatory(node) ==
    LET missing(names) == {i \in 1..Len(names) :
                              ~(node[names[i]].explicit \/ node[names[i]].optional)}
        first(names) == names[CHOOSE i \in missing(names) : \A j \in missing(names) : i <= j]
    IN  IF missing(Attribs(node.cls)) # {}
        THEN Fail(node, Err("MissingField", first(Attribs(node.cls))))
        ELSE IF missing(Fields(node.cls)) # {}
        THEN Fail(node, Err("MissingField", first(Fields(node.cls))))
        ELSE Ok(node)

\* a parse that does not empty extra first
Input_parse_keep(node, xml) ==
    The({IF a.err # NoErr THEN a
         ELSE The({IF f.err # NoErr THEN f ELSE Mandatory(f.n) :
                   f \in {ParseFields(a.n, xml, 1)}}) :
         a \in {ParseAttribs([node EXCEPT !.explicit = TRUE], xml, 1)}})

\* Input.parse(xml=...)
Input_parse(node, xml) ==
    The({IF a.err # NoErr THEN a
         ELSE The({IF f.err # NoErr THEN f ELSE Mandatory(f.n) :
                   f \in {ParseFields(a.n, xml, 1)}}) :
         a \in {ParseAttribs([node EXCEPT !.extra = <<>>, !.explicit = TRUE], xml, 1)}})

-----------------------------------------------------------------------------
(* The inputs of the dispatcher scenario *)

FixAtoms == Vec(<<3, 7>>)
NoAtoms == Vec(<<>>)

MoverKinds == {"GeopMotion", "NEBMover", "Dynamics", "DynMatrixMover", "AlchemyMC"}

\* the objects stored one by one; "object" is a kind without a tag
PlainObjs ==
    {Motion, Replay(FALSE, FixAtoms, "in.xyz"), Obj("object", FALSE, NoAtoms, "", 0, <<>>)}
    \cup {Mover(k, FALSE, FixAtoms, 1) : k \in MoverKinds}

\* the lists of the MultiMotion objects stored; a MultiMotion inside a list
\* has no tag
MotionLists ==
    {<<>>,
     <<Replay(FALSE, FixAtoms, "in.xyz"), Mover("GeopMotion", FALSE, FixAtoms, 1)>>,
     <<Mover("GeopMotion", FALSE, FixAtoms, 1), Replay(FALSE, FixAtoms, "in.xyz")>>,
     <<Motion>>,
     <<MultiMotion(<<>>)>>,
     <<Replay(FALSE, FixAtoms, "in.xyz"), MultiMotion(<<>>)>>}

MultiObjs == {MultiMotion(l) : l \in MotionLists}

Objs == PlainObjs \cup MultiObjs

At(name, val) == <<name, <<val>>>>
Fd(tag, text) == <<tag, LeafTree(tag, <<>>, <<text>>)>>
MotionTree(attrs, fields) == Tree("motion", attrs, fields)
Sub(attrs, fields) == <<"motion", MotionTree(attrs, fields)>>

\* the trees parsed by hand
HandTrees ==
    {MotionTree(<<At("mode", "replay")>>, <<Fd("file", "in.xyz")>>),
     MotionTree(<<At("mode", "foo")>>, <<>>),
     MotionTree(<<>>, <<Fd("fixcom", "False")>>),
     MotionTree(<<At("mode", "dynamics")>>, <<Fd("foo", "1")>>),
     MotionTree(<<At("mode", "dynamics"), At("bar", "1")>>, <<>>),
     MotionTree(<<At("mode", "dynamics"), At("_text", "x")>>, <<Fd("dynamics", "1")>>),
     MotionTree(<<At("mode", "neb")>>,
                << <<"_text", Text(<<"x">>)>>, Fd("neb_optimizer", "1")>>),
     MotionTree(<<At("mode", "minimize")>>, <<Fd("fixcom", "maybe")>>),
     MotionTree(<<At("mode", "minimize")>>,
                << <<"fixatoms", LeafTree("fixatoms", << <<"shape", <<"3">>>> >>,
                                          <<"3", "7">>)>> >>),
     MotionTree(<<At("mode", "multi")>>,
                <<Sub(<<At("mode", " replay ")>>, <<Fd("file", " in.xyz ")>>),
                  Fd("fixcom", "False"),
                  Sub(<<At("mode", "minimize")>>,
                      <<Fd("fixcom", "false"),
                        <<"fixatoms", LeafTree("fixatoms", << <<"shape", <<"2">>>> >>,
                                               <<"3", "7">>)>>,
                        Fd("optimizer", "1")>>)>>),
     MotionTree(<<At("mode", "multi")>>,
                <<Sub(<<>>, <<>>), Sub(<<At("mode", "multi")>>, <<>>)>>),
     MotionTree(<<At("mode", "multi")>>, <<Sub(<<At("mode", "foo")>>, <<>>)>>),
     MotionTree(<<At("mode", "multi")>>,
                <<Sub(<<At("mode", "dummy")>>, <<Sub(<<At("mode", "dummy")>>, <<>>)>>)>>)}

-----------------------------------------------------------------------------
(* The dispatcher scenario: one InputMotion node is constructed, stored    *)
(* into and parsed into, fetched and written; what it wrote is parsed by a *)
(* second, fresh InputMotion, which is then fetched                        *)

Call(op, arg, err, out) == [op |-> op, arg |-> arg, err |-> err, out |-> out]

BaseOptions == <<"vibrations", "minimize", "replay", "neb", "dynamics", "alchemy", "dummy">>
TestOptions == <<"a", "b">>

Init ==
    /\ lists = <<BaseOptions, TestOptions>>
    /\ registry = [InputMotionBase |-> 1, InputMotion |-> 0]
    /\ im = None
    /\ ops = 0
    /\ src = None
    /\ im2 = None
    /\ call = Call("import", None, NoErr, None)
    /\ lf = None
    /\ ldecl = None
    /\ lcall = Call("none", None, NoErr, None)
    /\ cn = None
    /\ ccall = Call("none", None, NoErr, None)
    /\ heap = <<>>
    /\ nodeA = None
    /\ nodeB = None
    /\ dcall = Call("none", None, NoErr, None)

\* the variables of each scenario
dispatcherVars == <<registry, im, ops, src, im2, call>>
leafVars == <<lf, ldecl, lcall>>
compositeVars == <<cn, ccall>>
defaultVars == <<heap, nodeA, nodeB, dcall>>
others == <<leafVars, compositeVars, defaultVars>>

\* the class statement of InputMotion: attribs = copy(InputMotionBase.attribs)
\* is a shallow copy, so attribs["mode"][1]["options"] is the list of the base
ClassInputMotion ==
    /\ registry.InputMotion = 0
    /\ registry' = [registry EXCEPT !.InputMotion = registry.InputMotionBase]
    /\ lists' = [lists EXCEPT ![registry.InputMotionBase] = Append(@, "multi")]
    /\ call' = Call("class", None, NoErr, None)
    /\ UNCHANGED <<im, ops, src, im2, others>>

\* im = InputMotion() or InputMotion(default=input_default(factory=Motion))
Construct ==
    /\ registry.InputMotion # 0
    /\ \E d \in {None, Some(Motion)} :
          \E r \in {InputMotion_init(d)} :
              /\ im' = Some(r.n)
              /\ call' = Call("construct", d, r.err, None)
    /\ ops' = 0
    /\ src' = None
    /\ im2' = None
    /\ UNCHANGED <<lists, registry, others>>

\* im.store(o)
Store ==
    /\ im # None
    /\ ops < MaxOps
    /\ \E o \in Objs :
          \E r \in {InputMotion_store(im[1], o)} :
              /\ im' = Some(r.n)
              /\ call' = Call("store", Some(o), r.err, None)
              /\ src' = Some(o)
    /\ ops' = ops + 1
    /\ im2' = None
    /\ UNCHANGED <<lists, registry, others>>

\* im.parse(xml=t)
Parse ==
    /\ im # None
    /\ ops < MaxOps
    /\ \E t \in HandTrees :
          \E r \in {Input_parse(im[1], t)} :
              /\ im' = Some(r.n)
              /\ call' = Call("parse", Some(t), r.err, None)
    /\ src' = None
    /\ ops' = ops + 1
    /\ im2' = None
    /\ UNCHANGED <<lists, registry, others>>

\* im.fetch()
Fetch ==
    /\ im # None
    /\ \E r \in {InputMotion_fetch(im[1])} :
          call' = Call("fetch", None, r.err, r.v)
    /\ im2' = None
    /\ UNCHANGED <<lists, registry, im, ops, src, others>>

\* im.write("motion")
Write ==
    /\ im # None
    /\ \E r \in {Input_write(im[1], "motion")} :
          call' = Call("write", None, r.err, r.v)
    /\ im2' = None
    /\ UNCHANGED <<lists, registry, im, ops, src, others>>

\* im2 = InputMotion(); im2.parse(xml=<what im wrote>)
Parse2 ==
    /\ call.op = "write"
    /\ call.err = NoErr
    /\ \E r \in {Input_parse(InputMotion_init(None).n, call.out[1][1][2])} :
          /\ im2' = Some(r.n)
          /\ call' = Call("parse2", Some(call.out[1][1][2]), r.err, None)
    /\ UNCHANGED <<lists, registry, im, ops, src, others>>

\* im2.fetch(); the call keeps the tree im2 was parsed from as its argument
Fetch2 ==
    /\ call.op = "parse2"
    /\ call.err = NoErr
    /\ \E r \in {InputMotion_fetch(im2[1])} :
          call' = Call("fetch2", call.arg, r.err, r.v)
    /\ UNCHANGED <<lists, registry, im, ops, src, im2, others>>

Next ==
    \/ ClassInputMotion
    \/ Construct
    \/ Store
    \/ Parse
    \/ Fetch
    \/ Write
    \/ Parse2
    \/ Fetch2

Spec == Init /\ [][Next]_vars

-----------------------------------------------------------------------------
(* Claims on the dispatcher scenario *)

\* the tag the claims give each kind, and the slot that belongs to the tag
TagOf(kind) ==
    CASE kind = "Motion" -> "dummy"
      [] kind = "Replay" -> "replay"
      [] kind = "GeopMotion" -> "minimize"
      [] kind = "NEBMover" -> "neb"
      [] kind = "Dynamics" -> "dynamics"
      [] kind = "DynMatrixMover" -> "vibrations"
      [] kind = "AlchemyMC" -> "alchemy"
      [] kind = "MultiMotion" -> "multi"
      [] OTHER -> "?"
SlotOf(tag) ==
    CASE tag = "minimize" -> "optimizer"
      [] tag = "neb" -> "neb_optimizer"
      [] tag = "replay" -> "file"
      [] OTHER -> tag
Registered == {"Motion", "Replay"} \cup MoverKinds
KindSlots == {"optimizer", "neb_optimizer", "dynamics", "vibrations", "alchemy", "file"}

\* what one store of o turns the dispatcher `pre' into, as C2 states it
StoredAs(pre, post, o, err) ==
    IF o.kind \notin Registered THEN err.type = "UnsupportedKind"
    ELSE /\ err = NoErr
         /\ post.mode.value = Some(TagOf(o.kind))
         /\ \A s \in KindSlots :
               IF s = SlotOf(TagOf(o.kind))
               THEN post[s].value = Some(IF s = "file" THEN o.intraj ELSE o.cfg)
               ELSE post[s] = pre[s]
         /\ IF o.kind \in MoverKinds
            THEN /\ post.fixcom.value = Some(o.fixcom)
                 /\ post.fixatoms.value = Some(o.fixatoms.data)
                 /\ post.fixatoms.shape.value = Some(o.fixatoms.shape)
            ELSE /\ post.fixcom = pre.fixcom
                 /\ post.fixatoms = pre.fixatoms

\* C2: a store dispatches on the exact kind of the object: it sets the
\* discriminator to the tag of the kind, stores the object into the one slot
\* of that tag and leaves the other slots alone, stores fixcom and fixatoms for
\* every kind but 'replay' and 'dummy', stores only the file for 'replay', and
\* raises UnsupportedKindError for a kind without a tag; the members of a
\* MultiMotion are stored the same way into the entries appended to extra.
C2_StoreDispatch ==
    [][(call'.op = "store" /\ ops' = ops + 1) =>
          LET o == call'.arg[1]
          IN  IF o.kind # "MultiMotion"
              THEN StoredAs(im[1], im'[1], o, call'.err)
              ELSE \A k \in 1..(Len(im'[1].extra) - Len(im[1].extra)) :
                      StoredAs(NewMotionNode("InputMotionBase", None),
                               im'[1].extra[Len(im[1].extra) + k][2],
                               o.mlist[k], NoErr)]_vars

C2_Witness ==
    /\ call.op = "store"
    /\ call.err = NoErr
    /\ src = Some(Mover("NEBMover", FALSE, FixAtoms, 1))
    /\ im[1].mode.value = Some("neb")
    /\ im[1].neb_optimizer.explicit


\* the values of a member that the tree carries: the file of a replay, and
\* fixcom, fixatoms and the kind's own configuration of every other mover
Carried(a, b) ==
    /\ a.kind = b.kind
    /\ a.kind = "Replay" => a.intraj = b.intraj
    /\ a.kind \in MoverKinds =>
          a.fixcom = b.fixcom /\ a.fixatoms = b.fixatoms /\ a.cfg = b.cfg

IsMotionChild(f) == f[1] = "motion"

\* src is a MultiMotion of registered kinds, stored into a fresh node
FreshMulti ==
    /\ ops = 1
    /\ src # None
    /\ src[1].kind = "MultiMotion"
    /\ \A i \in 1..Len(src[1].mlist) : src[1].mlist[i].kind \in Registered

Constructible == {"replay", "minimize", "neb", "dynamics", "vibrations", "alchemy"}
Whitelist(leaf) == Range(lists[leaf.valid[1]])
Checked(node) == node.explicit \/ node.optional

\* C3 as stated: a discriminator without a constructor never makes fetch
\* fail, fetch returns the placeholder Motion.
C3_FetchNeverFailsOnMode ==
    (/\ call.op = "fetch"
     /\ Checked(im[1])
     /\ im[1].mode.explicit
     /\ im[1].mode.value[1] \notin Constructible \cup {"multi"})
    => call.out = Some(Motion)

\* C3, amended: fetch raises InvalidOptionError for a discriminator outside
\* the whitelist; for a whitelisted discriminator without a constructor
\* ('dummy', and 'multi' on an InputMotionBase) it returns the placeholder
\* Motion; for 'multi' on an InputMotion it returns a MultiMotion of the
\* fetches of the extra entries in extra order, or raises if one of them does.
C3_FetchFallback ==
    (call.op = "fetch" /\ im[1].mode.explicit) =>
       LET node == im[1]
           m == node.mode.value[1]
           sub(i) == InputMotionBase_fetch(node.extra[i][2])
       IN  /\ m \notin Whitelist(node.mode) => call.err.type = "InvalidOption"
           /\ (m = "dummy" /\ Checked(node)) => call.out = Some(Motion)
           /\ m = "multi" =>
                 /\ IF \A i \in 1..Len(node.extra) : sub(i).err = NoErr
                    THEN call.out = Some(MultiMotion([i \in 1..Len(node.extra) |-> sub(i).v[1]]))
                    ELSE call.err # NoErr
                 /\ \A i \in 1..Len(node.extra) :
                       (/\ Checked(node.extra[i][2])
                        /\ node.extra[i][2].mode.explicit
                        /\ node.extra[i][2].mode.value[1] \in {"dummy", "multi"})
                       => sub(i) = Ret(Motion)

C3_Witness ==
    /\ call.op = "fetch"
    /\ im[1].mode.value = Some("multi")
    /\ Len(im[1].extra) = 2
    /\ im[1].extra[2][2].mode.value = Some("multi")
    /\ call.out = Some(MultiMotion(<<Motion, Motion>>))

\* C5: after a successful store or parse the node is explicit.
C5_ExplicitAfterStoreOrParse ==
    (call.op \in {"store", "parse"} /\ call.err = NoErr) => im[1].explicit

\* C8: the registry of InputMotionBase never changes once the class is
\* defined; the whitelist of its 'mode' never contains 'multi'.
C8_RegistryImmutable ==
    lists[registry.InputMotionBase] = BaseOptions

Undeclared(names, declared) == {i \in 1..Len(names) : names[i][1] \notin declared}
FirstOf(S) == CHOOSE i \in S : \A j \in S : i <= j
IsDynamicChild(f) == f[1] \in Dynamic("InputMotion")

\* C9 as stated, for the attributes: every undeclared attribute of the tree
\* makes parse raise UnrecognizedAttributeError.
C9_UndeclaredAttributeRaises ==
    (call.op = "parse"
     /\ Undeclared(call.arg[1].attribs, Range(Attribs("InputMotion"))) # {})
    => call.err.type = "UnrecognizedAttribute"

\* C9, amended: parse raises UnrecognizedAttributeError for an undeclared
\* attribute other than '_text' and raises for a child tag that is neither a
\* field, nor '_text', nor a dynamic template (UnrecognizedTagError naming
\* the tag when it comes first); a parse that succeeds has delegated every
\* field child to its field, and extra holds exactly the dynamic children of
\* this tree, each parsed into a node of its own, in document order, whatever
\* extra held before.
C9_ParseRouting ==
    [][(call'.op = "parse" /\ ops' = ops + 1) =>
          LET t == call'.arg[1]
              post == im'[1]
              badA == Undeclared(t.attribs, Range(Attribs("InputMotion")) \cup {"_text"})
              badF == Undeclared(t.fields, Range(Fields("InputMotion"))
                                           \cup Dynamic("InputMotion") \cup {"_text"})
              kids == SelectSeq(t.fields, IsDynamicChild)
          IN  /\ badA # {} =>
                    call'.err = Err("UnrecognizedAttribute", t.attribs[FirstOf(badA)][1])
              /\ (badA = {} /\ badF # {}) =>
                    /\ call'.err # NoErr
                    /\ FirstOf(badF) = 1 => call'.err = Err("UnrecognizedTag", t.fields[1][1])
              /\ call'.err = NoErr =>
                    /\ \A i \in 1..Len(t.fields) :
                          t.fields[i][1] \in Range(Fields("InputMotion"))
                          => post[t.fields[i][1]].explicit
                    /\ Len(post.extra) = Len(kids)
                    /\ \A i \in 1..Len(kids) :
                          /\ post.extra[i][1] = kids[i][1]
                          /\ post.extra[i][2].explicit
                          /\ HasAttr(kids[i][2], "mode") =>
                                post.extra[i][2].mode.value
                                   = Some(Strip(AttrOf(kids[i][2], "mode")[1]))]_vars

C9_Witness ==
    /\ call.op = "parse"
    /\ call.err = NoErr
    /\ ops = 2
    /\ Len(im[1].extra) = 2
    /\ im[1].extra[1][2].mode.value = Some("replay")
    /\ im[1].extra[2][2].mode.value = Some("minimize")

\* the node a constructor call like the one that made `node' makes
FreshLike(node) == InputMotion_init(IF node.optional THEN Some(Motion) ELSE None).n

\* C17: a successful store(x) after one successful store or parse leaves the
\* node as a store(x) into a freshly constructed node does: extra holds one
\* entry per member of x (none if x is no MultiMotion), and fetch and write
\* give what they give on the fresh node.
C17_StoreHistoryIndependent ==
    [][(/\ call.op \in {"store", "parse"}
        /\ call.err = NoErr
        /\ ops = 1
        /\ call'.op = "store"
        /\ ops' = 2
        /\ call'.err = NoErr) =>
          LET o == call'.arg[1]
              fresh == InputMotion_store(FreshLike(im[1]), o).n
          IN  /\ Len(im'[1].extra) = IF o.kind = "MultiMotion" THEN Len(o.mlist) ELSE 0
              /\ InputMotion_fetch(im'[1]) = InputMotion_fetch(fresh)
              /\ Input_write(im'[1], "motion") = Input_write(fresh, "motion")]_vars

\* a 'motion' child of the tree without a mode attribute
LacksMode(xml) ==
    \E i \in 1..Len(xml.fields) :
        IsMotionChild(xml.fields[i]) /\ ~HasAttr(xml.fields[i][2], "mode")

\* C18: right after the construction of a dispatcher with a default its 'mode'
\* is not explicit, and the parse of a tree with a 'motion' child that has no
\* mode attribute raises MissingFieldError.
C18_ModeStillMandatory ==
    /\ (call.op = "construct" /\ call.arg # None /\ call.err = NoErr) =>
          ~im[1].mode.explicit
    /\ (call.op = "parse" /\ LacksMode(call.arg[1])) =>
          call.err.type = "MissingField"

\* src is an object of a kind with a constructor, stored into a fresh node
FreshPlain ==
    /\ ops = 1
    /\ src # None
    /\ src[1].kind \in {"Replay"} \cup MoverKinds

\* C19 as stated: store into a fresh dispatcher, then fetch: the object
\* fetched has the kind, the fixcom and the fixatoms of the object stored, for
\* every kind with a constructor, 'replay' included.
C19_FixRoundTrip ==
    (call.op = "fetch" /\ FreshPlain) =>
        /\ call.err = NoErr
        /\ call.out[1].kind = src[1].kind
        /\ call.out[1].fixcom = src[1].fixcom
        /\ call.out[1].fixatoms = src[1].fixatoms

\* C19, amended: store into a fresh dispatcher, then fetch: the object fetched
\* has the kind of the object stored; for minimize, neb, dynamics, vibrations
\* and alchemy it has its fixcom and fixatoms too; for 'replay' it has its
\* file, and the fixcom and fixatoms the fresh dispatcher declares by default
\* (true and the empty list), whatever the object stored held.
C19_FixRoundTripButReplay ==
    (call.op = "fetch" /\ FreshPlain) =>
        /\ call.err = NoErr
        /\ call.out[1].kind = src[1].kind
        /\ src[1].kind \in MoverKinds =>
              /\ call.out[1].fixcom = src[1].fixcom
              /\ call.out[1].fixatoms = src[1].fixatoms
        /\ src[1].kind = "Replay" =>
              /\ call.out[1].intraj = src[1].intraj
              /\ call.out[1].fixcom = TRUE
              /\ call.out[1].fixatoms = NoAtoms

C19_Witness ==
    /\ call.op = "fetch"
    /\ ops = 1
    /\ src = Some(Replay(FALSE, FixAtoms, "in.xyz"))
    /\ call.out = Some(Replay(TRUE, NoAtoms, "in.xyz"))

-----------------------------------------------------------------------------
(* The leaf scenario: one schema node is declared and constructed, stored  *)
(* into, parsed into, fetched and written                                  *)

\* the declaration of a node: the class and the keyword arguments of __init__
Decl(cls, dtype, default, options, dimension, units) ==
    [cls |-> cls, type |-> dtype, default |-> default, options |-> options,
     dimension |-> dimension, units |-> units]

Square == Arr(<<2, 2>>, <<1, 2, 3, 4>>)
Scalar0d == Arr(<<>>, <<5>>)
Empty2d == Arr(<<2, 0>>, <<>>)
Rect == Arr(<<2, 3>>, <<1, 2, 3, 4, 5, 6>>)

LeafDecls ==
    {Decl("InputValue", "int", d, None, "undefined", "") : d \in {None, Some(0), Some(3)}}
    \cup {Decl("InputValue", "int", d, None, "length", u) :
             d \in {None, Some(3)}, u \in {"", "double"}}
    \cup {Decl("InputValue", "str", d, Some(2), "undefined", "") :
             d \in {None, Some("a"), Some("c")}}
    \cup {Decl("InputValue", "bool", d, None, "undefined", "") : d \in {None, Some(FALSE)}}
    \cup {Decl("InputArray", "int", d, None, "undefined", "") :
             d \in {None, Some(NoAtoms), Some(FixAtoms), Some(Square)}}
    \cup {Decl("InputArray", "int", d, None, "length", "triple") : d \in {None, Some(FixAtoms)}}
    \cup {Decl("InputMotionBase", "", d, None, "undefined", "") : d \in {None, Some(Motion)}}

\* the values of a leaf's type
LeafValues(node) ==
    CASE node.cls = "InputArray" -> {NoAtoms, FixAtoms, Square, Scalar0d, Empty2d, Rect}
      [] node.type = "int" -> {0, 3}
      [] node.type = "str" -> {"a", "b", "c", ""}
      [] node.type = "bool" -> {TRUE, FALSE}

\* the trees a leaf parses
LeafTrees ==
    {LeafTree("x", <<>>, <<"3">>),
     LeafTree("x", <<>>, <<" a ">>),
     LeafTree("x", <<>>, <<"True">>),
     LeafTree("x", << <<"units", <<"double">>>> >>, <<"3">>),
     LeafTree("x", << <<"shape", <<"2", "2">>>> >>, <<"1", "2", "3", "4">>),
     LeafTree("x", << <<"shape", <<"3">>>> >>, <<"3", "7">>),
     LeafTree("x", << <<"shape", <<"0">>>> >>, <<"3", "7">>),
     LeafTree("x", <<>>, <<"3", "7">>),
     LeafTree("x", << <<"bar", <<"1">>>> >>, <<"3">>)}

\* the bare texts a leaf parses
LeafTexts == {<<"3">>, <<"3", "7">>, <<"maybe">>}

\* cls(**kwargs)
Node_init(decl) ==
    CASE decl.cls = "InputValue" ->
            InputValue_init(decl.type, decl.default, decl.options, decl.dimension, decl.units)
      [] decl.cls = "InputArray" ->
            Ok(InputArray_init(decl.type, decl.default, decl.dimension, decl.units))
      [] decl.cls = "InputMotionBase" -> InputMotionBase_init(decl.default)

\* node.store(v)
Node_store(node, v) ==
    CASE node.cls = "InputValue" -> Ok(InputValue_store(node, v))
      [] node.cls = "InputArray" -> Ok(InputArray_store(node, v))
      [] node.cls = "InputMotionBase" -> InputMotionBase_store(node, v)

\* node.fetch()
Node_fetch(node) ==
    CASE node.cls = "InputValue" -> InputValue_fetch(node)
      [] node.cls = "InputArray" -> InputArray_fetch(node)
      [] node.cls = "InputMotionBase" -> InputMotionBase_fetch(node)

IsLeaf(node) == node.cls \in {"InputValue", "InputArray"}

\* lf = cls(**kwargs); a constructor that raises leaves no node
LeafConstruct ==
    /\ \E decl \in LeafDecls :
          \E r \in {Node_init(decl)} :
              /\ lf' = IF r.err = NoErr THEN Some(r.n) ELSE None
              /\ lcall' = Call("construct", Some(decl), r.err, None)
              /\ ldecl' = Some(decl)
    /\ UNCHANGED <<lists, dispatcherVars, compositeVars, defaultVars>>

\* lf.store(v)
LeafStore ==
    /\ lf # None
    /\ IsLeaf(lf[1])
    /\ \E v \in LeafValues(lf[1]) :
          \E r \in {Node_store(lf[1], v)} :
              /\ lf' = Some(r.n)
              /\ lcall' = Call("store", Some(v), r.err, None)
    /\ UNCHANGED <<lists, dispatcherVars, ldecl, compositeVars, defaultVars>>

\* lf.parse(xml=t)
LeafParse ==
    /\ lf # None
    /\ IsLeaf(lf[1])
    /\ \E t \in LeafTrees :
          \E r \in {Child_parse(lf[1], t)} :
              /\ lf' = Some(r.n)
              /\ lcall' = Call("parse", Some(t), r.err, None)
    /\ UNCHANGED <<lists, dispatcherVars, ldecl, compositeVars, defaultVars>>

\* lf.parse(text=t)
LeafParseText ==
    /\ lf # None
    /\ IsLeaf(lf[1])
    /\ \E t \in LeafTexts :
          \E r \in {IF lf[1].cls = "InputArray"
                    THEN InputArray_parse_text(lf[1], t)
                    ELSE InputValue_parse_text(lf[1], t)} :
              /\ lf' = Some(r.n)
              /\ lcall' = Call("parsetext", Some(t), r.err, None)
    /\ UNCHANGED <<lists, dispatcherVars, ldecl, compositeVars, defaultVars>>

\* lf.fetch(); a fetch that follows a store keeps the stored value as the
\* argument of the call
LeafFetch ==
    /\ lf # None
    /\ \E r \in {Node_fetch(lf[1])} :
          lcall' = Call("fetch", IF lcall.op = "store" THEN lcall.arg ELSE None,
                        r.err, r.v)
    /\ UNCHANGED <<lists, dispatcherVars, lf, ldecl, compositeVars, defaultVars>>

\* lf.write("x")
LeafWrite ==
    /\ lf # None
    /\ IsLeaf(lf[1])
    /\ \E r \in {Child_write(lf[1], "x")} :
          lcall' = Call("write", None, r.err, r.v)
    /\ UNCHANGED <<lists, dispatcherVars, lf, ldecl, compositeVars, defaultVars>>

\* lf2 = cls(**kwargs), of the declaration of lf; lf2.parse(xml=<what lf
\* wrote>); the call keeps lf2 as its result
LeafParse2 ==
    /\ lcall.op = "write"
    /\ lcall.err = NoErr
    /\ lcall.out[1] # <<>>
    /\ \E r \in {Child_parse(Node_init(ldecl[1]).n, lcall.out[1][1][2])} :
          lcall' = Call("parse2", Some(lcall.out[1][1][2]), r.err, Some(r.n))
    /\ UNCHANGED <<lists, dispatcherVars, lf, ldecl, compositeVars, defaultVars>>

NextLeaf ==
    \/ LeafConstruct
    \/ LeafStore
    \/ LeafParse
    \/ LeafParseText
    \/ LeafFetch
    \/ LeafWrite
    \/ LeafParse2

SpecLeaf == Init /\ [][NextLeaf]_vars

-----------------------------------------------------------------------------
(* Claims on the leaf scenario *)

\* what the node's own store makes of the default, on a node declared
\* without default
Applied(decl) ==
    Node_store(Node_init([decl EXCEPT !.default = None]).n, decl.default[1]).n

\* C6: immediately after the construction of a schema node, optional is true
\* exactly when a default was supplied, the node is not explicit, and a
\* supplied default has been applied through the node's own store (a node
\* without default holds no value)
C6_AfterConstruction ==
    (lcall.op = "construct" /\ lcall.err = NoErr) =>
        /\ lf # None
        /\ lf[1].optional = (lcall.arg[1].default # None)
        /\ ~lf[1].explicit
        /\ lcall.arg[1].default # None =>
              lf[1] = [Applied(lcall.arg[1]) EXCEPT !.explicit = FALSE, !.optional = TRUE]
        /\ (lcall.arg[1].default = None /\ IsLeaf(lf[1])) => lf[1].value = None

\* an array leaf was constructed with the default [3, 7]
C6_Witness ==
    /\ lcall.op = "construct"
    /\ lcall.arg[1].cls = "InputArray"
    /\ lcall.arg[1].default = Some(FixAtoms)
    /\ lf[1].value = Some(<<3, 7>>)
    /\ InputValue_fetch(lf[1].shape).v = Some(<<2>>)
    /\ lf[1].optional
    /\ ~lf[1].explicit

\* v is a value the leaf's whitelist (if it has one) admits
Admits(node, v) ==
    node.cls = "InputValue" /\ node.valid # None =>
        \E i \in 1..Len(lists[node.valid[1]]) : lists[node.valid[1]][i] = v

\* what fetch makes of a stored v: the conversion to internal units of a
\* leaf with a dimension
Converted(node, v) ==
    IF node.dimension = "undefined" THEN v
    ELSE IF node.cls = "InputArray"
    THEN Arr(v.shape, [i \in 1..Len(v.data) |->
                          unit_to_internal(node.dimension, node.units, v.data[i])])
    ELSE unit_to_internal(node.dimension, node.units, v)

InOptions(r, v) == \E i \in 1..Len(lists[r]) : lists[r][i] = v

\* C12 as stated: on a scalar leaf with a whitelist, store(v) with v outside
\* the whitelist raises InvalidOptionError at the store call
C12_StoreValidates ==
    (lcall.op = "store" /\ lf[1].cls = "InputValue" /\ lf[1].valid # None
     /\ ~InOptions(lf[1].valid[1], lcall.arg[1])) =>
        lcall.err.type = "InvalidOption"

\* C12: constructing a scalar leaf with a whitelist raises InvalidOptionError
\* exactly when a default outside the whitelist is given; store(v) never
\* raises and keeps v, also outside the whitelist; the fetch that follows
\* store(v) returns v when the whitelist has v and raises InvalidOptionError
\* when it has not
C12_OptionValidation ==
    /\ (lcall.op = "construct" /\ lcall.arg[1].cls = "InputValue"
        /\ lcall.arg[1].options # None) =>
          IF lcall.arg[1].default # None
             /\ ~InOptions(lcall.arg[1].options[1], lcall.arg[1].default[1])
          THEN lcall.err.type = "InvalidOption" /\ lf = None
          ELSE lcall.err = NoErr /\ lf # None /\ lf[1].valid = lcall.arg[1].options
    /\ (lcall.op = "store" /\ lf[1].cls = "InputValue" /\ lf[1].valid # None) =>
          /\ lcall.err = NoErr
          /\ lf[1].value = lcall.arg
          /\ lf[1].explicit
    /\ (lcall.op = "fetch" /\ lcall.arg # None /\ lf[1].cls = "InputValue"
        /\ lf[1].valid # None) =>
          IF InOptions(lf[1].valid[1], lcall.arg[1])
          THEN lcall.err = NoErr /\ lcall.out = lcall.arg
          ELSE lcall.err.type = "InvalidOption" /\ lcall.out = None

\* "c" was stored into a leaf whose whitelist is a, b, and the fetch after it
\* raised
C12_Witness ==
    /\ lcall.op = "fetch"
    /\ lf[1].cls = "InputValue"
    /\ lf[1].valid # None
    /\ lf[1].value = Some("c")
    /\ lcall.arg = Some("c")
    /\ lcall.err.type = "InvalidOption"

ShapeOf(node) == InputValue_fetch(node.shape).v

\* C14: store(v) on an array leaf whose shape is (0,) records the shape of v
\* and keeps the elements of v flattened in order; the fetch that follows
\* returns the elements reshaped to the recorded shape (scaled when the leaf
\* has a dimension); and a fetch on a leaf whose shape is (0,) returns a
\* zero-length result
C14_ShapeInference ==
    [][/\ (lcall'.op = "store" /\ lf'[1].cls = "InputArray"
           /\ ShapeOf(lf[1]) = Some(<<0>>)) =>
              /\ ShapeOf(lf'[1]) = Some(lcall'.arg[1].shape)
              /\ lf'[1].value = Some(lcall'.arg[1].data)
       /\ (lcall'.op = "fetch" /\ lcall.op = "store" /\ lf[1].cls = "InputArray") =>
              /\ lcall'.err = NoErr
              /\ lcall'.out[1].shape = ShapeOf(lf[1])[1]
              /\ lcall'.out = Some(Converted(lf[1], Arr(ShapeOf(lf[1])[1], lf[1].value[1])))
       /\ (lcall'.op = "fetch" /\ lf[1].cls = "InputArray" /\ lcall'.err = NoErr
           /\ ShapeOf(lf[1]) = Some(<<0>>)) =>
              lcall'.out = Some(Arr(<<0>>, <<>>))]_vars

\* a 2x3 array was stored: the leaf holds the shape (2,3) and the six
\* elements in order
C14_Witness ==
    /\ lcall.op = "store"
    /\ lf[1].cls = "InputArray"
    /\ lcall.arg = Some(Rect)
    /\ ShapeOf(lf[1]) = Some(<<2, 3>>)
    /\ lf[1].value = Some(<<1, 2, 3, 4, 5, 6>>)

\* the number of elements a shape holds room for differs from the number of
\* elements the array leaf holds
Mismatched(node) ==
    /\ node.value # None
    /\ ShapeOf(node) # None
    /\ Product(ShapeOf(node)[1]) # Len(node.value[1])

\* C15: after a successful parse of an array leaf, from a tree or from bare
\* text, the shape of the leaf is the shape attribute of the source when
\* the source has one, and (n,) for the n parsed elements otherwise
C15_ParsedShape ==
    (lcall.op \in {"parse", "parsetext"} /\ lf[1].cls = "InputArray"
     /\ lcall.err = NoErr) =>
        IF lcall.op = "parse" /\ HasAttr(lcall.arg[1], "shape")
        THEN ShapeOf(lf[1]) = read_type("tuple", AttrOf(lcall.arg[1], "shape")).v
        ELSE ShapeOf(lf[1]) = Some(<<Len(lf[1].value[1])>>)

\* C16: the parse of a tree whose shape attribute has room for another number
\* of elements than the tree holds raises MalformedArrayShapeError, and no
\* fetch or write succeeds on a leaf whose shape and elements disagree
C16_MismatchRejected ==
    /\ (lcall.op = "parse" /\ lf[1].cls = "InputArray"
        /\ HasAttr(lcall.arg[1], "shape") /\ Mismatched(lf[1])) =>
          lcall.err.type = "MalformedArrayShape"
    /\ (lcall.op \in {"fetch", "write"} /\ lf[1].cls = "InputArray"
        /\ Mismatched(lf[1])) =>
          lcall.err # NoErr

\* the unit of lf was set by the parse of a tree, to another unit than the
\* one lf was declared with
UnitParsed ==
    /\ lf[1].dimension # "undefined"
    /\ lf[1].units # ldecl[1].units

\* C20: a leaf with a dimension whose unit a parsed tree set to another unit
\* than the declared one writes a tree from which a fresh leaf of the same
\* declaration parses the same unit and fetches the same result.
C20_UnitsRoundTrip ==
    (lcall.op = "parse2" /\ UnitParsed) =>
        /\ lcall.err = NoErr
        /\ lcall.out[1].units = lf[1].units
        /\ Node_fetch(lcall.out[1]) = Node_fetch(lf[1])

-----------------------------------------------------------------------------
(* The composite scenario: a subclass of Input, InputTest, declares the    *)
(* attributes label (str, mandatory) and stride (int, default 1) and the   *)
(* fields count (int, mandatory) and flag (bool, default False); one node  *)
(* of it is constructed and parses trees                                   *)

\* InputTest(): Input.__init__ makes one child per declared name
InputTest_init ==
    [cls |-> "InputTest", optional |-> FALSE, explicit |-> FALSE, extra |-> <<>>,
     label |-> InputValue_init("str", None, None, "undefined", "").n,
     stride |-> InputValue_init("int", Some(1), None, "undefined", "").n,
     count |-> InputValue_init("int", None, None, "undefined", "").n,
     flag |-> InputValue_init("bool", Some(FALSE), None, "undefined", "").n]

TestAttrs ==
    {<<>>, <<At("label", "a")>>, <<At("label", "")>>, <<At("stride", "0")>>,
     <<At("label", "a"), At("stride", "2")>>}

TestFields ==
    {<<>>, <<Fd("count", "0")>>, <<Fd("flag", "True")>>,
     <<Fd("count", "3"), Fd("flag", "False")>>, <<Fd("count", "x")>>}

TestTrees == {Tree("test", a, f) : a \in TestAttrs, f \in TestFields}

\* cn = InputTest()
CompConstruct ==
    /\ cn' = Some(InputTest_init)
    /\ ccall' = Call("construct", None, NoErr, None)
    /\ UNCHANGED <<lists, dispatcherVars, leafVars, defaultVars>>

\* cn.parse(xml=t)
CompParse ==
    /\ cn # None
    /\ \E t \in TestTrees :
          \E r \in {Input_parse(cn[1], t)} :
              /\ cn' = Some(r.n)
              /\ ccall' = Call("parse", Some(t), r.err, None)
    /\ UNCHANGED <<lists, dispatcherVars, leafVars, defaultVars>>

NextComp ==
    \/ CompConstruct
    \/ CompParse

SpecComp == Init /\ [][NextComp]_vars

-----------------------------------------------------------------------------
(* Claims on the composite scenario *)

\* the declared names of `names' that are neither explicit nor optional
Unset(node, names) ==
    {names[i] : i \in {j \in 1..Len(names) :
                          ~(node[names[j]].explicit \/ node[names[j]].optional)}}

\* the outcome of the loops of parse over the attributes and the children
Processed(node, xml) ==
    The({IF a.err # NoErr THEN a ELSE ParseFields(a.n, xml, 1) :
         a \in {ParseAttribs([node EXCEPT !.extra = <<>>, !.explicit = TRUE], xml, 1)}})

\* the names the tree supplies
Supplied(xml) ==
    {xml.attribs[i][1] : i \in 1..Len(xml.attribs)}
    \cup {xml.fields[i][1] : i \in 1..Len(xml.fields)}

\* the declared names of a node, and those declared without default
Declared(node) == Range(Attribs(node.cls)) \cup Range(Fields(node.cls))
Required(node) == {name \in Declared(node) : ~node[name].optional}

\* C4: when parse has processed all attributes and children of the tree, a
\* declared attribute that is neither explicit nor optional makes it raise
\* MissingFieldError naming such an attribute; failing that, such a field
\* makes it raise MissingFieldError naming such a field; otherwise parse
\* succeeds.  Every declared item the tree supplies is explicit, whatever
\* its value, and a tree that supplies every mandatory item raises no
\* MissingFieldError
C4_RequiredItems ==
    [][ccall'.op = "parse" =>
          LET p == Processed(cn[1], ccall'.arg[1])
              unsetA == Unset(p.n, Attribs(p.n.cls))
              unsetF == Unset(p.n, Fields(p.n.cls))
          IN  p.err = NoErr =>
                /\ unsetA # {} =>
                      ccall'.err.type = "MissingField" /\ ccall'.err.name \in unsetA
                /\ (unsetA = {} /\ unsetF # {}) =>
                      ccall'.err.type = "MissingField" /\ ccall'.err.name \in unsetF
                /\ (unsetA = {} /\ unsetF = {}) => ccall'.err = NoErr
                /\ \A name \in Supplied(ccall'.arg[1]) \cap Declared(p.n) :
                      cn'[1][name].explicit
                /\ Required(p.n) \subseteq Supplied(ccall'.arg[1]) => ccall'.err = NoErr]_vars

\* a fresh node parsed a tree that supplies neither label nor count: the
\* error names the attribute
C4_Witness ==
    /\ ccall.op = "parse"
    /\ Supplied(ccall.arg[1]) = {"flag"}
    /\ ~cn[1].label.explicit
    /\ ~cn[1].count.explicit
    /\ cn[1].flag.explicit
    /\ ccall.err = Err("MissingField", "label")

-----------------------------------------------------------------------------
(* The default scenario: two array leaves are constructed from defaults,   *)
(* either an input_default descriptor or a literal object; the default     *)
(* objects live on the heap, a node holds its _default by reference        *)

\* numpy.zeros(n), as the content of the array
Zeros(n) == [i \in 1..n |-> 0]

\* input_default(factory=numpy.zeros, args=(n,)), and a default given as an
\* object that exists already
Descriptor(n) == [kind |-> "descriptor", factory |-> "zeros", args |-> n]
Literal(ref) == [kind |-> "literal", ref |-> ref]

Descriptors == {Descriptor(2)}

\* a factory that hands out the first object made instead of a new one
Factory_cached(h, d) ==
    IF h # <<>> THEN [heap |-> h, ref |-> 1]
    ELSE [heap |-> Append(h, Zeros(d.args)), ref |-> Len(h) + 1]

\* default.factory(*default.args, **default.kwargs): a new object
Factory(h, d) == [heap |-> Append(h, Zeros(d.args)), ref |-> Len(h) + 1]

\* the choice of self._default in Input.__init__
Input_default(h, default) ==
    IF default.kind = "descriptor" THEN Factory(h, default)
    ELSE [heap |-> h, ref |-> default.ref]

\* InputArray(dtype=int, default=default): the node, the reference it holds
\* as _default, and the heap after the construction
Defaulted_init(h, default) ==
    The({[heap |-> a.heap,
          node |-> [n |-> InputArray_init("int", Some(Vec(a.heap[a.ref])), "undefined", ""),
                    default |-> a.ref,
                    by |-> default]] :
         a \in {Input_default(h, default)}})

\* the caller makes an array
DLiteral ==
    /\ Len(heap) < MaxHeap
    /\ heap' = Append(heap, Zeros(1))
    /\ dcall' = Call("literal", None, NoErr, None)
    /\ UNCHANGED <<lists, dispatcherVars, leafVars, compositeVars, nodeA, nodeB>>

\* nodeA = InputArray(default=d) or nodeB = InputArray(default=d)
DConstruct ==
    /\ \E which \in {"A", "B"} :
       \E d \in Descriptors \cup {Literal(r) : r \in 1..Len(heap)} :
          /\ d.kind = "descriptor" => Len(heap) < MaxHeap
          /\ \E r \in {Defaulted_init(heap, d)} :
                /\ heap' = r.heap
                /\ nodeA' = IF which = "A" THEN Some(r.node) ELSE nodeA
                /\ nodeB' = IF which = "B" THEN Some(r.node) ELSE nodeB
                /\ dcall' = Call("construct", Some(which), NoErr, None)
    /\ UNCHANGED <<lists, dispatcherVars, leafVars, compositeVars>>

\* node._default[0] = 1, on nodeA or nodeB
DMutate ==
    /\ \E which \in {"A", "B"} :
          LET node == IF which = "A" THEN nodeA ELSE nodeB
          IN  /\ node # None
              /\ heap' = [heap EXCEPT ![node[1].default][1] = 1]
              /\ dcall' = Call("mutate", Some(which), NoErr, None)
    /\ UNCHANGED <<lists, dispatcherVars, leafVars, compositeVars, nodeA, nodeB>>

\* node.store(v), on nodeA or nodeB
DStore ==
    /\ \E which \in {"A", "B"} :
          LET node == IF which = "A" THEN nodeA ELSE nodeB
          IN  /\ node # None
              /\ \E v \in {FixAtoms} :
                    /\ nodeA' = IF which = "A"
                                THEN Some([node[1] EXCEPT !.n = InputArray_store(@, v)])
                                ELSE nodeA
                    /\ nodeB' = IF which = "B"
                                THEN Some([node[1] EXCEPT !.n = InputArray_store(@, v)])
                                ELSE nodeB
              /\ dcall' = Call("store", Some(which), NoErr, None)
    /\ UNCHANGED <<lists, dispatcherVars, leafVars, compositeVars, heap>>

\* node.fetch(), on nodeA or nodeB
DFetch ==
    /\ \E which \in {"A", "B"} :
          LET node == IF which = "A" THEN nodeA ELSE nodeB
          IN  /\ node # None
              /\ \E r \in {InputArray_fetch(node[1].n)} :
                    dcall' = Call("fetch", Some(which), r.err, r.v)
    /\ UNCHANGED <<lists, dispatcherVars, leafVars, compositeVars, heap, nodeA, nodeB>>

NextDefault ==
    \/ DLiteral
    \/ DConstruct
    \/ DMutate
    \/ DStore
    \/ DFetch

SpecDefault == Init /\ [][NextDefault]_vars

-----------------------------------------------------------------------------
(* Claims on the default scenario *)

\* both nodes exist and were constructed from the same descriptor
SameDescriptor(a, b) ==
    /\ a # None
    /\ b # None
    /\ a[1].by.kind = "descriptor"
    /\ a[1].by = b[1].by

\* the node a call acted on, and the other one
Acted(which, a, b) == IF which = "A" THEN a ELSE b
Other(which, a, b) == IF which = "A" THEN b ELSE a

\* C7: the construction of a node from a descriptor invokes the factory
\* exactly once (one new object, which the node holds as its default); two
\* nodes constructed from the same descriptor never hold the same object;
\* and a mutation of one node's default object, or a store into that node,
\* changes neither the other node's default object nor what the other fetches
C7_DescriptorFresh ==
    [][/\ (dcall'.op = "construct"
           /\ Acted(dcall'.arg[1], nodeA', nodeB')[1].by.kind = "descriptor") =>
              /\ Len(heap') = Len(heap) + 1
              /\ Acted(dcall'.arg[1], nodeA', nodeB')[1].default = Len(heap')
              /\ \A i \in 1..Len(heap) : heap'[i] = heap[i]
       /\ SameDescriptor(nodeA', nodeB') => nodeA'[1].default # nodeB'[1].default
       /\ (dcall'.op \in {"mutate", "store"} /\ SameDescriptor(nodeA, nodeB)) =>
              LET other == Other(dcall'.arg[1], nodeA, nodeB)[1]
                  after == Other(dcall'.arg[1], nodeA', nodeB')[1]
              IN  /\ after.default = other.default
                  /\ heap'[after.default] = heap[other.default]
                  /\ InputArray_fetch(after.n) = InputArray_fetch(other.n)]_vars

\* both nodes come from zeros(2); the default of nodeA was mutated, the
\* default of nodeB is still zeros(2) and nodeB still fetches zeros(2)
C7_Witness ==
    /\ SameDescriptor(nodeA, nodeB)
    /\ nodeA[1].by = Descriptor(2)
    /\ dcall.op = "mutate"
    /\ dcall.arg = Some("A")
    /\ heap[nodeA[1].default] = <<1, 0>>
    /\ heap[nodeB[1].default] = <<0, 0>>
    /\ InputArray_fetch(nodeB[1].n) = Ret(Vec(<<0, 0>>))

-----------------------------------------------------------------------------
(* The note scenario: a subclass of Input, InputNote, declares the leaf     *)
(* fields title (str, mandatory), memo (str, default ""), name (str,        *)
(* default "a"), atoms (int array, default empty) and sites (int array,     *)
(* default [3, 7]); one node of it is constructed, stored into field by     *)
(* field and written, and what it wrote is parsed by a fresh node           *)

\* InputNote(): Input.__init__ makes one child per declared name
InputNote_init ==
    [cls |-> "InputNote", optional |-> FALSE, explicit |-> FALSE, extra |-> <<>>,
     title |-> InputValue_init("str", None, None, "undefined", "").n,
     memo |-> InputValue_init("str", Some(""), None, "undefined", "").n,
     name |-> InputValue_init("str", Some("a"), None, "undefined", "").n,
     atoms |-> InputArray_init("int", Some(NoAtoms), "undefined", ""),
     sites |-> InputArray_init("int", Some(FixAtoms), "undefined", "")]

\* the values stored into a field of a note
NoteValues(child) ==
    IF child.cls = "InputArray" THEN {NoAtoms, FixAtoms} ELSE {"", "a"}

\* the empty value of a leaf's type
EmptyOf(child) == IF child.cls = "InputArray" THEN NoAtoms ELSE ""

\* the leaf holds the empty string or the empty sequence
HoldsEmpty(child) == child.value # None /\ Len(child.value[1]) = 0

\* cn = InputNote()
NoteConstruct ==
    /\ cn' = Some(InputNote_init)
    /\ ccall' = Call("construct", None, NoErr, None)
    /\ UNCHANGED <<lists, dispatcherVars, leafVars, defaultVars>>

\* cn.<f>.store(v)
NoteStore ==
    /\ cn # None
    /\ \E f \in Range(Fields(cn[1].cls)) :
       \E v \in NoteValues(cn[1][f]) :
       \E r \in {Node_store(cn[1][f], v)} :
          /\ cn' = Some([cn[1] EXCEPT ![f] = r.n])
          /\ ccall' = Call("store", Some(<<f, v>>), r.err, None)
    /\ UNCHANGED <<lists, dispatcherVars, leafVars, defaultVars>>

\* cn.write("note")
NoteWrite ==
    /\ cn # None
    /\ \E r \in {Input_write(cn[1], "note")} :
          ccall' = Call("write", None, r.err, r.v)
    /\ UNCHANGED <<lists, dispatcherVars, leafVars, cn, defaultVars>>

\* fresh = InputNote(); fresh.parse(xml=<what cn wrote>); the call keeps the
\* node and the exception of the parse as its output
NoteParse2 ==
    /\ ccall.op = "write"
    /\ ccall.err = NoErr
    /\ \E r \in {Input_parse(InputNote_init, ccall.out[1][1][2])} :
          ccall' = Call("parse2", Some(ccall.out[1][1][2]), r.err, Some(r.n))
    /\ UNCHANGED <<lists, dispatcherVars, leafVars, cn, defaultVars>>

NextNote ==
    \/ NoteConstruct
    \/ NoteStore
    \/ NoteWrite
    \/ NoteParse2

SpecNote == Init /\ [][NextNote]_vars

-----------------------------------------------------------------------------
(* Claims on the note scenario *)

\* the tags of the children of a tree
TagsOf(xml) == {xml.fields[i][1] : i \in 1..Len(xml.fields)}

\* C11: a leaf field that holds the empty string or the empty sequence is
\* written as an omitted tag, and a fresh node of the same kind parses the
\* written tree without exception and fetches the empty value from that
\* field, whatever the declaration of the field
C11_EmptyRoundTrip ==
    ccall.op = "parse2" =>
        \A f \in Range(Fields(cn[1].cls)) :
            HoldsEmpty(cn[1][f]) =>
                /\ f \notin TagsOf(ccall.arg[1])
                /\ ccall.err = NoErr
                /\ Node_fetch(ccall.out[1][f]) = Ret(EmptyOf(cn[1][f]))

====
